---- MODULE Spec2Model ----
(***************************************************************************)
(* RepoSage pull-request review agent: the rate limiter of app.py, the     *)
(* engine pool and analysis engine of analysis_engine.py, and the          *)
(* orchestrator loops of main.py / the /analyze route of app.py.           *)
(*                                                                         *)
(* Time is an integer clock (datetime.now()); one unit is an arbitrary     *)
(* fraction of the rate window.  A text is a sequence of phrases, so that  *)
(* Python's `phrase in text` is membership of the phrase in the sequence.  *)
(***************************************************************************)
EXTENDS Integers, Sequences, FiniteSets, TLC

\* ---------------------------------------------------------------- bounds
MaxTime == 4
MaxRequests == 2
MaxWindow == 2
MaxCalls == 5
MaxConcCalls == 3
MaxDispatch == 5
MaxPRs == 2
MaxFiles == 2
MaxHunk == 2
MaxLines == 2
MaxApply == 2
MaxPhrases == 3

Clients == {"10.0.0.1", "10.0.0.2"}
Threads == {"t1", "t2"}

VARIABLES
    now,                 \* datetime.now(): the wall clock
    max_requests,        \* rate_limit(max_requests=...)
    window,              \* rate_limit(window_minutes=...), in clock units
    rate_limit_storage,  \* app.py:18, client_ip -> list of timestamps
    reqlog,              \* history: per client, every decided request
    last,                \* history: the request decided last
    pc,                  \* per worker thread: position in decorated_function
    t_client,            \* per thread: client_ip
    t_now,               \* per thread: now
    t_filtered,          \* per thread: the list the comprehension built
    pool_size,           \* len(self.engines)
    current_index,       \* AnalysisEnginePool.current_index
    analysis_history,    \* engine index -> AnalysisEngine.analysis_history
    picked,              \* history: the engine index each get_engine returned
    lastCall,            \* history: the analyze_code_changes call made last
    ppc,                 \* per thread: position in the pool's analyze_code_changes
    p_engine,            \* per thread: the engine get_engine selected
    p_read,              \* per thread: the current_index read at line 154
    entry,               \* which entry point runs: "batch", "main" or "http"
    args_pr_numbers,     \* main: args.pr_numbers (None without --pr-numbers)
    PR_NUMBER,           \* main: config.PR_NUMBER (None when unset or empty)
    git_server,          \* the provider variant the factory built
    pr_url,              \* /analyze: the pull_request_url of the request body
    repo_owner,          \* git_service.owner
    repo_name,           \* git_service.repo_name
    pr_numbers,          \* the ordered list of PR numbers under review
    idx,                 \* position in pr_numbers of the PR under review
    stage,               \* the statement of the loop body reached
    diff_text,           \* diff_text of the PR under review (or None)
    analysis,            \* analysis of the PR under review (or None)
    results,             \* results (run_batch_analysis) / all_results (main)
    http_status,         \* status code of the /analyze response (0: none yet)
    trace,               \* history: per PR, the stages run and how each ended
    arg,                 \* a function called on its own: its argument
    ret                  \* ... and the value it returned (None before the call)

rateVars == <<now, max_requests, window, rate_limit_storage, reqlog, last>>
threadVars == <<pc, t_client, t_now, t_filtered>>
poolVars == <<pool_size, current_index, analysis_history, picked, lastCall>>
poolThreadVars == <<ppc, p_engine, p_read>>
runVars == <<entry, args_pr_numbers, PR_NUMBER, git_server, pr_url, repo_owner,
             repo_name, pr_numbers, idx, stage, diff_text, analysis, results,
             http_status, trace>>
callVars == <<arg, ret>>
vars == <<rateVars, threadVars, poolVars, poolThreadVars, runVars, callVars>>

\* ------------------------------------------------------------------ texts
\* A diff is the list diff_text.split('\n'): a non-empty sequence of lines,
\* each line a sequence of tokens.  "diff --git" and "BIG" are multi-character
\* tokens; every other token is one character.  The empty string is the one
\* empty line.
MaxDiffSize == 50000
EmptyText == << <<>> >>
IsEmptyText(d) == d = EmptyText

TokenLen(tok) ==
    CASE tok = "diff --git" -> 10
      [] tok = "BIG" -> MaxDiffSize
      [] OTHER -> 1

RECURSIVE LineLen(_)
LineLen(line) ==
    IF line = <<>> THEN 0 ELSE TokenLen(Head(line)) + LineLen(Tail(line))

\* len(diff_text): the characters of the lines and the '\n' between them
RECURSIVE TextLen(_)
TextLen(d) ==
    IF Len(d) = 1 THEN LineLen(d[1])
    ELSE LineLen(Head(d)) + 1 + TextLen(Tail(d))

\* str.startswith
StartsWith(line, prefix) ==
    /\ Len(line) >= Len(prefix)
    /\ SubSeq(line, 1, Len(prefix)) = prefix

GitLine == <<"diff --git", " ", "a", " ", "b">>
OldLine == <<"-", "-", "-", " ", "a">>
NewLine == <<"+", "+", "+", " ", "b">>
AddLine == <<"+", "x">>
DelLine == <<"-", "x">>
CtxLine == <<" ", "x">>
BigLine == <<"+", "BIG">>

OneFileDiff == <<GitLine, OldLine, NewLine, CtxLine, AddLine, DelLine>>
BareDiff == <<AddLine, AddLine>>
HugeDiff == <<GitLine, OldLine, NewLine, BigLine>>

\* a text the engine returns is a sequence of phrases; `p in text` is PhraseIn
PhraseIn(p, text) == \E i \in DOMAIN text : text[i] = p

\* Python truthiness of an optional text: None and "" are falsy
None == [some |-> FALSE, v |-> <<>>]
Some(v) == [some |-> TRUE, v |-> v]
FalsyDiff(x) == ~x.some \/ IsEmptyText(x.v)
FalsyText(x) == ~x.some \/ x.v = <<>>

\* ------------------------------------------------------------------- URLs
\* A URL is a sequence of tokens.  "https://", "http://", "/", " " and the
\* characters sanitize_input removes are tokens of their own; every other
\* token is a run of characters of the class [a-zA-Z0-9._-] (a name, a host,
\* a number), except "octo$cat", which holds a character outside the class.
\* "o39", "o40", "r100" and "r101" stand for names of that many characters.
DigitTokens == {"42", "0", "999999", "1000000", "007"}
NameTokens ==
    {"octocat", "octo", "cat", "hello-world", "o39", "o40", "r100", "r101",
     "pull", "issues", "github.com", "gitlab.com", "www."} \cup DigitTokens
DangerousTokens == {"<", ">", "\"", "'", "&"}
SpaceTokens == {" ", "\n"}

\* len() of a token
CharCount(tok) ==
    CASE tok = "octocat" -> 7
      [] tok = "hello-world" -> 11
      [] tok = "o39" -> 39
      [] tok = "o40" -> 40
      [] tok = "r100" -> 100
      [] tok = "r101" -> 101
      [] tok \in {"pull", "www.", "octo"} -> 4
      [] tok \in {"cat", "007"} -> 3
      [] tok = "issues" -> 6
      [] tok \in {"github.com", "gitlab.com"} -> 10
      [] tok = "42" -> 2
      [] tok = "999999" -> 6
      [] tok = "1000000" -> 7
      [] tok = "https://" -> 8
      [] tok = "http://" -> 7
      [] tok = "octo$cat" -> 8
      [] OTHER -> 1

\* int() of a run of digits
DigitsValue(tok) ==
    CASE tok = "42" -> 42
      [] tok = "0" -> 0
      [] tok = "999999" -> 999999
      [] tok = "1000000" -> 1000000
      [] tok = "007" -> 7
      [] OTHER -> 0

RECURSIVE Pow10(_)
Pow10(n) == IF n = 0 THEN 1 ELSE 10 * Pow10(n - 1)

\* len(owner), int(pr_number) of a matched group
RECURSIVE GroupLen(_)
GroupLen(g) == IF g = <<>> THEN 0 ELSE CharCount(Head(g)) + GroupLen(Tail(g))

RECURSIVE GroupInt(_)
GroupInt(g) ==
    IF g = <<>> THEN 0
    ELSE LET n == Len(g)
         IN GroupInt(SubSeq(g, 1, n - 1)) * Pow10(CharCount(g[n])) + DigitsValue(g[n])

\* str.strip(): leading and trailing whitespace removed
RECURSIVE LStrip(_)
LStrip(u) ==
    IF u # <<>> /\ Head(u) \in SpaceTokens THEN LStrip(Tail(u)) ELSE u

RECURSIVE RStrip(_)
RStrip(u) ==
    IF u # <<>> /\ u[Len(u)] \in SpaceTokens
    THEN RStrip(SubSeq(u, 1, Len(u) - 1)) ELSE u

Strip(u) == RStrip(LStrip(u))

\* app.py:67-75  sanitize_input: the dangerous characters removed, then strip()
sanitize_input(text) ==
    IF text = <<>> THEN text
    ELSE Strip(SelectSeq(text, LAMBDA tok : tok \notin DangerousTokens))

\* the pieces of u between its "/" tokens
RECURSIVE SplitSlash(_)
SplitSlash(u) ==
    IF \A i \in DOMAIN u : u[i] # "/" THEN <<u>>
    ELSE LET k == CHOOSE i \in DOMAIN u :
                      u[i] = "/" /\ \A j \in 1..(i - 1) : u[j] # "/"
         IN <<SubSeq(u, 1, k - 1)>> \o SplitSlash(SubSeq(u, k + 1, Len(u)))

\* [a-zA-Z0-9._-]+  and  \d+
IsNameGroup(g) == g # <<>> /\ \A i \in DOMAIN g : g[i] \in NameTokens
IsDigitGroup(g) == g # <<>> /\ \A i \in DOMAIN g : g[i] \in DigitTokens

\* app.py:46-52  re.match of the two patterns: the groups, or no match
UrlMatch(u) ==
    LET parts == IF u = <<>> THEN <<>> ELSE SplitSlash(Tail(u))
        n == Len(parts)
    IN IF /\ u # <<>>
          /\ Head(u) = "https://"
          /\ n \in {5, 6}
          /\ parts[1] \in {<<"github.com">>, <<"www.", "github.com">>}
          /\ IsNameGroup(parts[2])
          /\ IsNameGroup(parts[3])
          /\ parts[4] = <<"pull">>
          /\ IsDigitGroup(parts[5])
          /\ (n = 6 => parts[6] = <<>>)
       THEN [matched |-> TRUE, owner |-> parts[2], repo |-> parts[3],
             pr_number |-> parts[5]]
       ELSE [matched |-> FALSE, owner |-> <<>>, repo |-> <<>>, pr_number |-> <<>>]

\* a ValueError, and a returned (owner, repo, pr_num)
UrlError(msg) == [ok |-> FALSE, error |-> msg, owner |-> <<>>, repo |-> <<>>, pr_num |-> 0]
UrlParts(owner, repo, pr_num) ==
    [ok |-> TRUE, error |-> "", owner |-> owner, repo |-> repo, pr_num |-> pr_num]

MaxOwnerLen == 39
MaxRepoLen == 100
MaxPrNumber == 999999

\* app.py:56  len(owner) > 39 or len(repo) > 100
NameTooLong(owner, repo) ==
    GroupLen(owner) > MaxOwnerLen \/ GroupLen(repo) > MaxRepoLen

\* app.py:60  pr_num <= 0 or pr_num > 999999
BadPrNumberAllowsZero(pr_num) == pr_num < 0 \/ pr_num > MaxPrNumber
BadPrNumber(pr_num) == pr_num <= 0 \/ pr_num > MaxPrNumber

\* app.py:41-65  validate_github_url; NotAString is a value that is no str
NotAString == <<"not a str">>
validate_github_url(url) ==
    IF url = <<>> \/ url = NotAString
    THEN UrlError("URL must be a non-empty string")
    ELSE LET m == UrlMatch(Strip(url))
         IN IF ~m.matched THEN UrlError("Invalid GitHub PR URL format")
            ELSE IF NameTooLong(m.owner, m.repo)
            THEN UrlError("Repository owner or name is too long")
            ELSE IF BadPrNumber(GroupInt(m.pr_number))
            THEN UrlError("Invalid pull request number")
            ELSE UrlParts(m.owner, m.repo, GroupInt(m.pr_number))

\* ------------------------------------------------------ analysis engine
\* analysis_engine.py:20  '+++' and '---' lines are metadata
IsMetadataLineNever(line) == FALSE
IsMetadataLine(line) ==
    StartsWith(line, <<"+", "+", "+">>) \/ StartsWith(line, <<"-", "-", "-">>)

\* analysis_engine.py:19-27  one line of preprocess_diff; "ADDED: " and
\* "REMOVED: " are tokens of their own
preprocess_line(line) ==
    IF IsMetadataLine(line) THEN line
    ELSE IF StartsWith(line, <<"+">>) THEN <<"ADDED: ">> \o Tail(line)
    ELSE IF StartsWith(line, <<"-">>) THEN <<"REMOVED: ">> \o Tail(line)
    ELSE line

\* analysis_engine.py:15-29
preprocess_diff(diff) == [i \in DOMAIN diff |-> preprocess_line(diff[i])]

\* analysis_engine.py:98-107  the first score found is written to every match
ScoreValue(p) ==
    CASE p = "Recommendation Score: 9" -> 9
      [] p = "Recommendation Score: 8" -> 8
      [] p = "Recommendation Score: 6" -> 6
      [] p = "Recommendation Score: 5" -> 5
      [] p = "Recommendation Score: 4" -> 4
      [] p = "Recommendation Score: 2" -> 2
      [] OTHER -> -1

IsScore(p) == ScoreValue(p) >= 0

ScoreMark(score) ==
    IF score >= 8 THEN "pass" ELSE IF score >= 5 THEN "warn" ELSE "fail"

ScoreText(score) ==
    "**Recommendation Score: " \o ToString(score) \o "/10 " \o ScoreMark(score) \o "**"

\* analysis_engine.py:95-111
format_analysis_output(raw_output) ==
    LET headed == [i \in DOMAIN raw_output |->
                      IF raw_output[i] = "## " THEN "**"
                      ELSE IF raw_output[i] = "### " THEN "#**"
                      ELSE raw_output[i]]
        hits == {i \in DOMAIN headed : IsScore(headed[i])}
        first == CHOOSE i \in hits : \A j \in hits : i <= j
        scored == IF hits = {} THEN headed
                  ELSE [i \in DOMAIN headed |->
                           IF IsScore(headed[i])
                           THEN ScoreText(ScoreValue(headed[first]))
                           ELSE headed[i]]
    IN [i \in DOMAIN scored |->
           IF scored[i] = "\n \n" THEN "\n\n" ELSE scored[i]]

\* analysis_engine.py:113-131
generate_fallback_analysis(diff) ==
    LET added_lines == Cardinality({i \in DOMAIN diff : StartsWith(diff[i], <<"+">>)})
        removed_lines == Cardinality({i \in DOMAIN diff : StartsWith(diff[i], <<"-">>)})
        modified_files == Cardinality({i \in DOMAIN diff : StartsWith(diff[i], <<"diff --git">>)})
    IN << "**Automated Analysis Summary**",
          "This pull request modifies ",
          ToString(modified_files), " file(s) with ",
          ToString(added_lines), " additions and ",
          ToString(removed_lines), " deletions.",
          "**General Recommendations:**",
          "Note: Detailed AI analysis temporarily unavailable. ",
          "Manual review recommended for critical changes." >>

\* analysis_engine.py:59
UnableText == <<"Unable to analyze", ": diff text is empty.">>

\* how the model call of analysis_engine.py:67-78 can end: "ok", or an
\* exception out of generate_content (network, quota, malformed response) or
\* out of reading response.text (unreadable response)
ModelFailures == {"network", "quota", "malformed", "unreadable"}

\* the engine calls made on the pool directly: the diff, and what the model
\* does if it is called (outcome "none": an empty diff and a model nobody
\* scripted)
PoolResponses ==
    {<<>>, <<"## ", "Summary", "\n \n", "Looks good.">>, <<"Recommendation Score: 9">>}
PoolCalls ==
    {<<EmptyText, "none", <<>> >>, <<EmptyText, "network", <<>> >>,
     <<EmptyText, "ok", <<"Recommendation Score: 9">> >>}
      \cup {<<d, "ok", r>> : d \in {OneFileDiff, BareDiff}, r \in PoolResponses}
      \cup {<<d, f, <<>> >> : d \in {OneFileDiff, BareDiff}, f \in ModelFailures}

\* analysis_engine.py:80  `except Exception` catches every model failure
ExceptCatchesValueErrorOnly(failure) == failure \in {"malformed", "unreadable"}
ExceptCatches(failure) == TRUE

AnalysisRecord(diff, success) == [diff_size |-> TextLen(diff), success |-> success]

\* analysis_engine.py:58  `if not diff_text`: the input the engine rejects
RejectsNothing(diff) == FALSE
RejectsInput(diff) == IsEmptyText(diff)

\* analysis_engine.py:57-93: what the call returns or raises, the records it
\* appends to analysis_history, and how often it called the model
analyze_code_changes(diff, outcome, response) ==
    IF RejectsInput(diff)
    THEN [raised |-> FALSE, result |-> UnableText, records |-> <<>>,
          model_calls |-> 0]
    ELSE IF outcome = "ok"
    THEN [raised |-> FALSE, result |-> format_analysis_output(response),
          records |-> <<AnalysisRecord(diff, TRUE)>>, model_calls |-> 1]
    ELSE LET before == IF outcome = "unreadable"
                       THEN <<AnalysisRecord(diff, TRUE)>> ELSE <<>>
         IN IF ExceptCatches(outcome)
            THEN [raised |-> FALSE, result |-> generate_fallback_analysis(diff),
                  records |-> Append(before, AnalysisRecord(diff, FALSE)),
                  model_calls |-> 1]
            ELSE [raised |-> TRUE, result |-> <<>>, records |-> before,
                  model_calls |-> 1]

\* analysis_engine.py:133-145  get_analysis_statistics: None for an empty
\* history, else the totals
get_analysis_statistics(history) ==
    IF history = <<>> THEN [some |-> FALSE, total_analyses |-> 0, successful_analyses |-> 0]
    ELSE [some |-> TRUE,
          total_analyses |-> Len(history),
          successful_analyses |->
              Cardinality({i \in DOMAIN history : history[i].success})]

\* ---------------------------------------------------------- engine pool
\* analysis_engine.py:154
NextIndexNoWrap(i, n) == IF i + 1 < n THEN i + 1 ELSE i
NextIndex(i, n) == (i + 1) % n

NoCall ==
    [n |-> 0, index |-> 0, diff |-> EmptyText, outcome |-> "none",
     raised |-> FALSE, result |-> <<>>, records |-> <<>>, model_calls |-> 0,
     cursor |-> 0]

\* analysis_engine.py:148  pool_size=3
DefaultPoolSize == 3

\* analysis_engine.py:148-150, with no thread inside the pool
InitPool(size) ==
    /\ pool_size = size
    /\ current_index = 0
    /\ analysis_history = [i \in 0..(size - 1) |-> <<>>]
    /\ picked = <<>>
    /\ lastCall = NoCall
    /\ ppc = [t \in Threads |-> "idle"]
    /\ p_engine = [t \in Threads |-> 0]
    /\ p_read = [t \in Threads |-> 0]

\* analysis_engine.py:161-167  the module's pool: pool_size=1
InitPoolIdle == InitPool(1)

InitRunIdle ==
    /\ entry = "none"
    /\ args_pr_numbers = None
    /\ PR_NUMBER = None
    /\ git_server = "github"
    /\ pr_url = <<>>
    /\ repo_owner = <<>>
    /\ repo_name = <<>>
    /\ pr_numbers = <<>>
    /\ idx = 0
    /\ stage = "init"
    /\ diff_text = None
    /\ analysis = None
    /\ results = <<>>
    /\ http_status = 0
    /\ trace = <<>>

\* no function is being called on its own
InitCallIdle ==
    /\ arg = <<>>
    /\ ret = None

\* ------------------------------------------------------- rate limiter
\* app.py:28-31  [t for t in storage.get(ip, []) if t > window_start]
PruneKeepAll(times, window_start) == times
Prune(times, window_start) ==
    SelectSeq(times, LAMBDA t : t > window_start)

\* app.py:33  len(storage.get(ip, [])) >= max_requests
OverLimitOffByOne(times, limit) == Len(times) > limit
OverLimit(times, limit) == Len(times) >= limit

\* app.py:33-36  what the client's list holds after the check
RecordAlways(times, t, rejected) == Append(times, t)
Record(times, t, rejected) ==
    IF rejected THEN times ELSE Append(times, t)

\* the statuses the wrapped handler f (analyze) can answer with
HandlerStatuses == {200, 400, 500}

NoRequest ==
    [client |-> "none", time |-> 0, before |-> <<>>, prev |-> <<>>,
     admitted |-> FALSE, ran |-> FALSE, status |-> 0]

TotalCalls ==
    LET RECURSIVE Sum(_)
        Sum(S) == IF S = {} THEN 0
                  ELSE LET c == CHOOSE x \in S : TRUE
                       IN Len(reqlog[c]) + Sum(S \ {c})
    IN Sum(Clients)

InitThreadsIdle ==
    /\ pc = [t \in Threads |-> "idle"]
    /\ t_client = [t \in Threads |-> "none"]
    /\ t_now = [t \in Threads |-> 0]
    /\ t_filtered = [t \in Threads |-> <<>>]

InitRate ==
    /\ now = 0
    /\ max_requests \in 1..MaxRequests
    /\ window \in 1..MaxWindow
    /\ rate_limit_storage = [c \in Clients |-> <<>>]
    /\ reqlog = [c \in Clients |-> <<>>]
    /\ last = NoRequest
    /\ InitThreadsIdle
    /\ InitPoolIdle
    /\ InitRunIdle
    /\ InitCallIdle

\* the clock advances between (or during) requests
Tick ==
    /\ now < MaxTime
    /\ now' = now + 1
    /\ UNCHANGED <<max_requests, window, rate_limit_storage, reqlog, last>>
    /\ UNCHANGED <<threadVars, poolVars, poolThreadVars, runVars, callVars>>

\* app.py:24  client_ip = request.environ.get('REMOTE_ADDR', ...): the key of
\* a request's list is the address it came from
ClientKeyShared(remote_addr) == "10.0.0.1"
ClientKey(remote_addr) == remote_addr

\* app.py:23-37  decorated_function, run start to end for one request
Request(remote_addr, handler_status) ==
    LET client_ip == ClientKey(remote_addr)
        window_start == now - window
        pruned == Prune(rate_limit_storage[client_ip], window_start)
        rejected == OverLimit(pruned, max_requests)
    IN  /\ TotalCalls < MaxCalls
        /\ rate_limit_storage' =
              [rate_limit_storage EXCEPT ![client_ip] = Record(pruned, now, rejected)]
        /\ last' = [client |-> remote_addr, time |-> now,
                    before |-> rate_limit_storage[client_ip],
                    prev |-> reqlog[remote_addr],
                    admitted |-> ~rejected, ran |-> ~rejected,
                    status |-> IF rejected THEN 429 ELSE handler_status]
        /\ reqlog' = [reqlog EXCEPT ![remote_addr] =
                         Append(@, [time |-> now, admitted |-> ~rejected,
                                    ran |-> ~rejected])]
        /\ UNCHANGED <<now, max_requests, window>>
        /\ UNCHANGED <<threadVars, poolVars, poolThreadVars, runVars, callVars>>

NextRate ==
    \/ Tick
    \/ \E c \in Clients, s \in HandlerStatuses : Request(c, s)

SpecRate == InitRate /\ [][NextRate]_vars

\* ------------------------------------------- rate limiter, worker threads
\* Flask serves each request on its own thread; decorated_function takes no
\* lock, so its statements interleave with those of other requests.
InFlight == Cardinality({t \in Threads : pc[t] # "idle"})

\* app.py:24-26  client_ip, now, window_start
T_Start(t, remote_addr) ==
    /\ pc[t] = "idle"
    /\ TotalCalls + InFlight < MaxConcCalls
    /\ pc' = [pc EXCEPT ![t] = "prune_read"]
    /\ t_client' = [t_client EXCEPT ![t] = ClientKey(remote_addr)]
    /\ t_now' = [t_now EXCEPT ![t] = now]
    /\ t_filtered' = [t_filtered EXCEPT ![t] = <<>>]
    /\ UNCHANGED <<rateVars, poolVars, poolThreadVars, runVars, callVars>>

\* app.py:28-31  the comprehension reads the stored list and builds a new one
T_PruneRead(t) ==
    /\ pc[t] = "prune_read"
    /\ t_filtered' = [t_filtered EXCEPT ![t] =
                         Prune(rate_limit_storage[t_client[t]], t_now[t] - window)]
    /\ pc' = [pc EXCEPT ![t] = "prune_write"]
    /\ UNCHANGED <<t_client, t_now>>
    /\ UNCHANGED <<rateVars, poolVars, poolThreadVars, runVars, callVars>>

\* app.py:28  rate_limit_storage[client_ip] = <the new list>
T_PruneWrite(t) ==
    /\ pc[t] = "prune_write"
    /\ rate_limit_storage' =
          [rate_limit_storage EXCEPT ![t_client[t]] = t_filtered[t]]
    /\ pc' = [pc EXCEPT ![t] = "check"]
    /\ UNCHANGED <<t_client, t_now, t_filtered>>
    /\ UNCHANGED <<now, max_requests, window, reqlog, last>>
    /\ UNCHANGED <<poolVars, poolThreadVars, runVars, callVars>>

\* app.py:33-34  the length check; a rejected request returns 429 here
T_Check(t) ==
    /\ pc[t] = "check"
    /\ IF OverLimit(rate_limit_storage[t_client[t]], max_requests)
       THEN /\ pc' = [pc EXCEPT ![t] = "idle"]
            /\ reqlog' = [reqlog EXCEPT ![t_client[t]] =
                             Append(@, [time |-> t_now[t], admitted |-> FALSE,
                                        ran |-> FALSE])]
       ELSE /\ pc' = [pc EXCEPT ![t] = "append"]
            /\ UNCHANGED reqlog
    /\ UNCHANGED <<t_client, t_now, t_filtered>>
    /\ UNCHANGED <<now, max_requests, window, rate_limit_storage, last>>
    /\ UNCHANGED <<poolVars, poolThreadVars, runVars, callVars>>

\* app.py:36  rate_limit_storage.setdefault(client_ip, []).append(now)
T_Append(t) ==
    /\ pc[t] = "append"
    /\ rate_limit_storage' =
          [rate_limit_storage EXCEPT ![t_client[t]] = Append(@, t_now[t])]
    /\ pc' = [pc EXCEPT ![t] = "handler"]
    /\ UNCHANGED <<t_client, t_now, t_filtered>>
    /\ UNCHANGED <<now, max_requests, window, reqlog, last>>
    /\ UNCHANGED <<poolVars, poolThreadVars, runVars, callVars>>

\* app.py:37  return f(*args, **kwargs)
T_Handler(t) ==
    /\ pc[t] = "handler"
    /\ reqlog' = [reqlog EXCEPT ![t_client[t]] =
                     Append(@, [time |-> t_now[t], admitted |-> TRUE,
                                ran |-> TRUE])]
    /\ pc' = [pc EXCEPT ![t] = "idle"]
    /\ UNCHANGED <<t_client, t_now, t_filtered>>
    /\ UNCHANGED <<now, max_requests, window, rate_limit_storage, last>>
    /\ UNCHANGED <<poolVars, poolThreadVars, runVars, callVars>>

NextRateConc ==
    \/ Tick
    \/ \E t \in Threads, c \in Clients : T_Start(t, c)
    \/ \E t \in Threads : T_PruneRead(t)
    \/ \E t \in Threads : T_PruneWrite(t)
    \/ \E t \in Threads : T_Check(t)
    \/ \E t \in Threads : T_Append(t)
    \/ \E t \in Threads : T_Handler(t)

SpecRateConc == InitRate /\ [][NextRateConc]_vars

\* ------------------------------------------------- engine pool: dispatch
InitRateIdle ==
    /\ now = 0
    /\ max_requests = 1
    /\ window = 1
    /\ rate_limit_storage = [c \in Clients |-> <<>>]
    /\ reqlog = [c \in Clients |-> <<>>]
    /\ last = NoRequest
    /\ InitThreadsIdle

InitPoolSized ==
    /\ \E size \in 1..DefaultPoolSize : InitPool(size)
    /\ InitRateIdle
    /\ InitRunIdle
    /\ InitCallIdle

\* what one engine call leaves behind
CallRecord(index, diff, outcome, r, cursor) ==
    [n |-> Len(picked) + 1, index |-> index, diff |-> diff, outcome |-> outcome,
     raised |-> r.raised, result |-> r.result, records |-> r.records,
     model_calls |-> r.model_calls, cursor |-> cursor]

\* analysis_engine.py:152-159  AnalysisEnginePool.analyze_code_changes: get_engine,
\* then the chosen engine's analyze_code_changes
PoolDispatch(diff, outcome, response) ==
    LET index == current_index
        r == analyze_code_changes(diff, outcome, response)
    IN  /\ current_index' = NextIndex(current_index, pool_size)
        /\ picked' = Append(picked, index)
        /\ analysis_history' = [analysis_history EXCEPT ![index] = @ \o r.records]
        /\ lastCall' = CallRecord(index, diff, outcome, r, current_index')
        /\ UNCHANGED pool_size

Dispatch(diff, outcome, response) ==
    /\ Len(picked) < MaxDispatch
    /\ PoolDispatch(diff, outcome, response)
    /\ UNCHANGED <<rateVars, threadVars, poolThreadVars, runVars, callVars>>

NextPool ==
    \E c \in PoolCalls : Dispatch(c[1], c[2], c[3])

SpecPool == InitPoolSized /\ [][NextPool]_vars

\* --------------------------------------- engine pool: concurrent dispatch
\* get_engine takes no lock: line 153 reads current_index, line 154 reads it
\* again and writes it back, and other threads run in between.
Started == Len(picked) + Cardinality({t \in Threads : ppc[t] = "select"})

P_Start(t) ==
    /\ ppc[t] = "idle"
    /\ Started < MaxConcCalls
    /\ ppc' = [ppc EXCEPT ![t] = "select"]
    /\ UNCHANGED <<p_engine, p_read>>
    /\ UNCHANGED <<rateVars, threadVars, poolVars, runVars, callVars>>

\* analysis_engine.py:153  engine = self.engines[self.current_index]
P_Select(t) ==
    /\ ppc[t] = "select"
    /\ p_engine' = [p_engine EXCEPT ![t] = current_index]
    /\ picked' = Append(picked, current_index)
    /\ ppc' = [ppc EXCEPT ![t] = "read"]
    /\ UNCHANGED <<p_read, pool_size, current_index, analysis_history, lastCall>>
    /\ UNCHANGED <<rateVars, threadVars, runVars, callVars>>

\* analysis_engine.py:154  the right-hand side reads self.current_index
P_Read(t) ==
    /\ ppc[t] = "read"
    /\ p_read' = [p_read EXCEPT ![t] = current_index]
    /\ ppc' = [ppc EXCEPT ![t] = "write"]
    /\ UNCHANGED p_engine
    /\ UNCHANGED <<rateVars, threadVars, poolVars, runVars, callVars>>

\* analysis_engine.py:154  self.current_index = (... + 1) % len(self.engines)
P_Write(t) ==
    /\ ppc[t] = "write"
    /\ current_index' = NextIndex(p_read[t], pool_size)
    /\ ppc' = [ppc EXCEPT ![t] = "analyze"]
    /\ UNCHANGED <<p_engine, p_read>>
    /\ UNCHANGED <<pool_size, analysis_history, picked, lastCall>>
    /\ UNCHANGED <<rateVars, threadVars, runVars, callVars>>

\* analysis_engine.py:159  engine.analyze_code_changes(diff_text, ...)
P_Analyze(t, diff, outcome, response) ==
    /\ ppc[t] = "analyze"
    /\ LET r == analyze_code_changes(diff, outcome, response)
       IN /\ analysis_history' =
                [analysis_history EXCEPT ![p_engine[t]] = @ \o r.records]
          /\ lastCall' = [CallRecord(p_engine[t], diff, outcome, r, current_index)
                             EXCEPT !.n = Len(picked)]
    /\ ppc' = [ppc EXCEPT ![t] = "idle"]
    /\ UNCHANGED <<p_engine, p_read>>
    /\ UNCHANGED <<pool_size, current_index, picked>>
    /\ UNCHANGED <<rateVars, threadVars, runVars, callVars>>

NextPoolConc ==
    \/ \E t \in Threads : P_Start(t)
    \/ \E t \in Threads : P_Select(t)
    \/ \E t \in Threads : P_Read(t)
    \/ \E t \in Threads : P_Write(t)
    \/ \E t \in Threads, c \in PoolCalls : P_Analyze(t, c[1], c[2], c[3])

SpecPoolConc == InitPoolSized /\ [][NextPoolConc]_vars

\* ------------------------------------------------------- the review runs
\* One action per statement of the loop bodies of run_batch_analysis
\* (main.py:86-108) and main (main.py:145-167) and of the /analyze handler
\* (app.py:104-167).  Both command-line loops and the handler use the module's
\* pool of one engine (analysis_engine.py:163-167).
Entries == {"batch", "main", "http"}
GitServers == {"github", "gitlab", "bitbucket"}

\* argparse takes any integers (type=int)
PRLists ==
    {[i \in 1..n |-> i] : n \in 1..MaxPRs}
      \cup {[i \in 1..n |-> n + 1 - i] : n \in 2..MaxPRs}
      \cup {<<0>>, <<MaxPrNumber + 1>>}

\* ------------------------------------------------------------ providers
\* git_services.py: each method of a provider sends one request and reads the
\* answer inside `try ... except requests.exceptions.RequestException`.
ProviderOps == {"diff", "metadata", "post"}

\* what the network answers: no answer, an error status, or a 2xx answer whose
\* body is as documented, is no JSON, is JSON but no object, lacks a key
\* ('old_path'), or holds null where an object or a string is expected
\* ('user', 'author', 'diff')
TransportFailures == {"timeout", "connection_error"}
ErrorStatuses == {"status_401", "status_404", "status_500"}
Bodies ==
    {"body_ok", "body_not_json", "body_not_object", "body_missing_key",
     "body_null_field"}
ProviderResponses == TransportFailures \cup ErrorStatuses \cup Bodies

\* the methods that call response.json(): every get_pr_metadata, and GitLab's
\* get_pull_request_diff; the others hand back response.text or True
ParsesBody(server, op) ==
    op = "metadata" \/ (op = "diff" /\ server = "gitlab")

\* the exception the method's try block raises, "none" if it runs through
\* (git_services.py:42-44, 74-84, 102-112); response.json() reports a body that
\* is no JSON as requests.exceptions.JSONDecodeError
ExceptionIn(server, op, response) ==
    IF response = "timeout" THEN "Timeout"
    ELSE IF response = "connection_error" THEN "ConnectionError"
    ELSE IF response \in ErrorStatuses THEN "HTTPError"
    ELSE IF ~ParsesBody(server, op) THEN "none"
    ELSE CASE response = "body_not_json" -> "JSONDecodeError"
           [] response = "body_not_object" -> "AttributeError"
           [] response = "body_missing_key" ->
                 IF op = "diff" THEN "KeyError" ELSE "none"
           [] response = "body_null_field" ->
                 IF op = "diff" THEN "TypeError" ELSE "AttributeError"
           [] OTHER -> "none"

\* the classes `except requests.exceptions.RequestException` catches
RequestExceptions == {"Timeout", "ConnectionError", "HTTPError", "JSONDecodeError"}

\* one call of get_pull_request_diff, get_pr_metadata or post_review_comment:
\* whether it raised, whether it returned a value (not None / True), and the
\* number of requests it sent
provider_call(server, op, response) ==
    LET exc == ExceptionIn(server, op, response)
    IN [raised |-> exc \notin RequestExceptions \cup {"none"},
        ok |-> exc = "none",
        exception |-> IF exc \in RequestExceptions THEN "none" ELSE exc,
        requests |-> 1]

OutcomeOf(call) ==
    IF call.raised THEN "raises" ELSE IF call.ok THEN "ok" ELSE "failed"

\* the answers of a provider's get_pull_request_diff: the diff text, None
\* after a RequestException, or an exception of another class.  Only GitLab's
\* assembly of the diff (git_services.py:104-110) can raise one.
FetchOutcomes(server) ==
    {OutcomeOf(provider_call(server, "diff", r)) : r \in ProviderResponses}

\* get_pr_metadata: the dict, None, or an exception out of data.get(...).get(...)
MetadataOutcomes(server) ==
    {OutcomeOf(provider_call(server, "metadata", r)) : r \in ProviderResponses}

\* post_review_comment: True or False
PostOutcomes(server) ==
    {OutcomeOf(provider_call(server, "post", r)) : r \in ProviderResponses}

\* the diffs and model calls of a run
RunDiffs == {EmptyText, OneFileDiff, HugeDiff}
RunResponses ==
    { <<>>,
      <<"Looks good.">>,
      <<"The handler prints ", "Analysis failed", " on error.">>,
      <<"Unable to analyze", " the binary file.">>,
      <<"Could not perform analysis", " of generated code.">> }
\* generate_content raising, and response.text raising
RunFailures == {"network", "unreadable"}
RunCalls ==
    {<<"ok", r>> : r \in RunResponses} \cup {<<f, <<>> >> : f \in RunFailures}

Init ==
    /\ InitRateIdle
    /\ InitPoolIdle
    /\ InitRunIdle
    /\ InitCallIdle

Event(name, ok) == [stage |-> name, ok |-> ok]
Logged(name, ok) == [trace EXCEPT ![idx] = Append(@, Event(name, ok))]

ResultRecord(pr, status, error, text) ==
    [pr_number |-> pr, status |-> status, error |-> error, analysis |-> text]

\* config.REPO_OWNER / config.REPO_NAME / config.PR_NUMBER: what the
\* environment holds (config.py:82-84); an empty PR_NUMBER is falsy like None
ConfigRepos ==
    { [owner |-> <<"octocat">>, name |-> <<"hello-world">>, pr_number |-> n] :
        n \in {None, Some("42")} }

\* main.py:116-117  --pr-numbers: absent (None) or one or more integers
PrNumberArgs == {None} \cup {Some(prs) : prs \in PRLists}

\* main.py:126  args.pr_numbers or [int(config.PR_NUMBER)] if config.PR_NUMBER
\* else []: the conditional expression binds weaker than `or`, so the whole
\* `or` is its first branch
ResolvePrNumbers(flag, configured) ==
    IF configured.some
    THEN IF flag.some THEN flag.v ELSE <<DigitsValue(configured.v)>>
    ELSE <<>>

\* the pull_request_url values of the request bodies: <<>> is a missing or
\* empty value, NotAString a JSON value that is no string
UrlOf(owner, number) ==
    <<"https://", "github.com", "/">> \o owner \o
        <<"/", "hello-world", "/", "pull", "/", number>>
RunUrls ==
    { <<>>, NotAString,
      UrlOf(<<"octocat">>, "42"),
      UrlOf(<<"octo", "<", "cat", ">">>, "42") \o <<"/", "\n">>,
      UrlOf(<<"octocat">>, "0"),
      UrlOf(<<"o40">>, "42"),
      <<"http://">> \o Tail(UrlOf(<<"octocat">>, "42")) }

\* main.py:78-79 / main.py:124-138 / app.py:104: an entry point starts on its
\* inputs: the list run_batch_analysis is called with, the command line and
\* the configuration of main, or the request's URL.  Only main reads
\* config.PR_NUMBER, so the other entries run with it unset; main returns 1
\* at line 130 when it resolved no PR number.
RunInputs(e, flag, cfg, url) ==
    LET prs == IF e = "main" THEN ResolvePrNumbers(flag, cfg.pr_number)
               ELSE IF e = "batch" THEN flag.v
               ELSE <<>>
    IN  /\ e = "batch" => flag.some
        /\ e # "main" => ~cfg.pr_number.some
        /\ entry' = e
        /\ args_pr_numbers' = IF e = "main" THEN flag ELSE None
        /\ PR_NUMBER' = cfg.pr_number
        /\ pr_url' = IF e = "http" THEN url ELSE <<>>
        /\ repo_owner' = cfg.owner
        /\ repo_name' = cfg.name
        /\ pr_numbers' = prs
        /\ idx' = 1
        /\ trace' = [i \in 1..(IF e = "http" THEN 1 ELSE Len(prs)) |-> <<>>]
        /\ stage' = IF e = "http" THEN "validate"
                    ELSE IF e = "main" /\ prs = <<>> THEN "no_prs"
                    ELSE "services"

\* main.py:79, 138 / app.py:127: the entry point that runs and the provider
\* it builds (the /analyze handler always builds the GitHub one)
RunStart(e, server) ==
    /\ stage = "init"
    /\ git_server' = IF e = "http" THEN "github" ELSE server
    /\ \E flag \in PrNumberArgs, cfg \in ConfigRepos, url \in RunUrls :
          RunInputs(e, flag, cfg, url)
    /\ UNCHANGED <<diff_text, analysis, results, http_status>>
    /\ UNCHANGED <<rateVars, threadVars, poolVars, poolThreadVars, callVars>>

\* app.py:109-124, 162-167  the status the handler answers with when the body
\* or the URL stops it, 0 when both pass: no JSON body is BadRequest (400), a
\* missing or empty URL 400, a value that is no string fails in sanitize_input
\* (text.replace) and is caught at line 164 (500), a ValueError of
\* validate_github_url 400
ValidationStatus(is_json, url) ==
    IF ~is_json \/ url = <<>> THEN 400
    ELSE IF url = NotAString THEN 500
    ELSE IF ~validate_github_url(sanitize_input(url)).ok THEN 400
    ELSE 0

\* app.py:109-124  the body is checked, the URL sanitized and validated; the
\* parts validate_github_url returns are the repository and PR of the request
HttpValidate(is_json) ==
    /\ stage = "validate"
    /\ LET v == validate_github_url(sanitize_input(pr_url))
           status == ValidationStatus(is_json, pr_url)
       IN IF status # 0
          THEN /\ trace' = Logged("validate", FALSE)
               /\ stage' = "done" /\ http_status' = status
               /\ UNCHANGED <<repo_owner, repo_name, pr_numbers>>
          ELSE /\ trace' = Logged("validate", TRUE)
               /\ stage' = "services"
               /\ repo_owner' = v.owner
               /\ repo_name' = v.repo
               /\ pr_numbers' = <<v.pr_num>>
               /\ UNCHANGED http_status
    /\ UNCHANGED <<args_pr_numbers, PR_NUMBER>>
    /\ UNCHANGED <<entry, git_server, pr_url, idx, diff_text, analysis,
                   results>>
    /\ UNCHANGED <<rateVars, threadVars, poolVars, poolThreadVars, callVars>>

\* main.py:15-23, 81-82, 140-141 / app.py:126-132
InitServices(ok) ==
    /\ stage = "services"
    /\ IF ok THEN stage' = "fetch" /\ UNCHANGED http_status
       ELSE /\ stage' = "init_failed"
            /\ http_status' = IF entry = "http" THEN 500 ELSE http_status
    /\ UNCHANGED <<args_pr_numbers, PR_NUMBER>>
    /\ UNCHANGED <<entry, git_server, pr_url, repo_owner, repo_name,
                   pr_numbers, idx, diff_text, analysis,
                   results, trace>>
    /\ UNCHANGED <<rateVars, threadVars, poolVars, poolThreadVars, callVars>>

\* the loop's next iteration, or its end (main.py:86, 145); the handler returns
Advance ==
    IF entry # "http" /\ idx < Len(pr_numbers)
    THEN idx' = idx + 1 /\ stage' = "fetch"
    ELSE idx' = idx /\ stage' = "done"

\* main.py:92-94, 149-150 / app.py:136-139: where a PR goes after its fetch
StageAfterFetchIgnoringFailure(e, failed) == IF e = "http" THEN "size" ELSE "analyze"
StageAfterFetch(e, failed) ==
    IF failed THEN "skip" ELSE IF e = "http" THEN "size" ELSE "analyze"

\* main.py:25-36, 91-94, 148-150 / app.py:134-139, 164-167
Fetch(outcome, d) ==
    /\ stage = "fetch"
    /\ outcome \in FetchOutcomes(git_server)
    /\ IF outcome = "raises"
       THEN /\ trace' = Logged("fetch", FALSE)
            /\ stage' = IF entry = "http" THEN "done" ELSE "crashed"
            /\ http_status' = IF entry = "http" THEN 500 ELSE http_status
            /\ UNCHANGED <<idx, diff_text, results>>
       ELSE LET got == IF outcome = "ok" THEN Some(d) ELSE None
                to == StageAfterFetch(entry, FalsyDiff(got))
            IN /\ trace' = Logged("fetch", ~FalsyDiff(got))
               /\ IF to = "skip"
                  THEN /\ Advance
                       /\ diff_text' = None
                       /\ results' =
                             IF entry = "batch"
                             THEN Append(results,
                                         ResultRecord(pr_numbers[idx], "failed",
                                                      "Could not fetch diff", <<>>))
                             ELSE results
                       /\ http_status' = IF entry = "http" THEN 400 ELSE http_status
                  ELSE /\ stage' = to
                       /\ diff_text' = got
                       /\ UNCHANGED <<idx, results, http_status>>
    /\ UNCHANGED <<args_pr_numbers, PR_NUMBER>>
    /\ UNCHANGED <<entry, git_server, pr_url, repo_owner, repo_name,
                   pr_numbers, analysis>>
    /\ UNCHANGED <<rateVars, threadVars, poolVars, poolThreadVars, callVars>>

\* app.py:141-144  only the handler bounds the diff's size
SizeCheck ==
    /\ stage = "size"
    /\ LET too_large ==
               TextLen(IF diff_text.some THEN diff_text.v ELSE EmptyText) > MaxDiffSize
       IN /\ trace' = Logged("size", ~too_large)
          /\ IF too_large
             THEN stage' = "done" /\ http_status' = 400
             ELSE stage' = "analyze" /\ UNCHANGED http_status
    /\ UNCHANGED <<args_pr_numbers, PR_NUMBER>>
    /\ UNCHANGED <<entry, git_server, pr_url, repo_owner, repo_name,
                   pr_numbers, idx, diff_text, analysis, results>>
    /\ UNCHANGED <<rateVars, threadVars, poolVars, poolThreadVars, callVars>>

\* main.py:49  the orchestrator reads the engine's text for error phrases
AnalysisRejected(text) ==
    PhraseIn("Unable to analyze", text) \/ PhraseIn("Analysis failed", text)

\* main.py:47-54  PRReviewOrchestrator.analyze_changes
analyze_changes(text) ==
    IF AnalysisRejected(text) THEN None ELSE Some(text)

\* app.py:148  not analysis_result or "Could not perform analysis" in it
HttpAnalysisFailed(text) ==
    text = <<>> \/ PhraseIn("Could not perform analysis", text)

\* main.py:96-99, 152-154 / app.py:146-160, 164-167
Analyze(outcome, response) ==
    /\ stage = "analyze"
    /\ PoolDispatch(IF diff_text.some THEN diff_text.v ELSE EmptyText,
                    outcome, response)
    /\ LET r == analyze_code_changes(IF diff_text.some THEN diff_text.v ELSE EmptyText,
                                     outcome, response)
       IN IF r.raised
          THEN /\ trace' = Logged("analyze", FALSE)
               /\ stage' = IF entry = "http" THEN "done" ELSE "crashed"
               /\ http_status' = IF entry = "http" THEN 500 ELSE http_status
               /\ UNCHANGED <<idx, analysis, results>>
          ELSE IF entry = "http"
          THEN /\ trace' = Logged("analyze", ~HttpAnalysisFailed(r.result))
               /\ stage' = "done"
               /\ http_status' = IF HttpAnalysisFailed(r.result) THEN 500 ELSE 200
               /\ analysis' = IF HttpAnalysisFailed(r.result) THEN None
                              ELSE Some(r.result)
               /\ UNCHANGED <<idx, results>>
          ELSE LET a == analyze_changes(r.result)
               IN /\ trace' = Logged("analyze", ~FalsyText(a))
                  /\ UNCHANGED http_status
                  /\ IF FalsyText(a)
                     THEN /\ Advance
                          /\ analysis' = None
                          /\ results' =
                                IF entry = "batch"
                                THEN Append(results,
                                            ResultRecord(pr_numbers[idx], "failed",
                                                         "Analysis failed", <<>>))
                                ELSE results
                     ELSE /\ stage' = IF entry = "main" THEN "metadata" ELSE "report"
                          /\ analysis' = a
                          /\ UNCHANGED <<idx, results>>
    /\ UNCHANGED <<args_pr_numbers, PR_NUMBER>>
    /\ UNCHANGED <<entry, git_server, pr_url, repo_owner, repo_name,
                   pr_numbers, diff_text>>
    /\ UNCHANGED <<rateVars, threadVars, poolThreadVars, callVars>>

\* main.py:156  only main fetches the metadata
Metadata(outcome) ==
    /\ stage = "metadata"
    /\ outcome \in MetadataOutcomes(git_server)
    /\ trace' = Logged("metadata", outcome = "ok")
    /\ stage' = IF outcome = "raises" THEN "crashed" ELSE "report"
    /\ UNCHANGED <<args_pr_numbers, PR_NUMBER>>
    /\ UNCHANGED <<entry, git_server, pr_url, repo_owner, repo_name,
                   pr_numbers, idx, diff_text, analysis,
                   results, http_status>>
    /\ UNCHANGED <<rateVars, threadVars, poolVars, poolThreadVars, callVars>>

\* main.py:101-102, 157-158  generate_report, and the record appended
Report ==
    /\ stage = "report"
    /\ trace' = Logged("report", TRUE)
    /\ results' = Append(results,
                         ResultRecord(pr_numbers[idx],
                                      IF entry = "batch" THEN "success" ELSE "none",
                                      "", analysis.v))
    /\ stage' = "post"
    /\ UNCHANGED <<args_pr_numbers, PR_NUMBER>>
    /\ UNCHANGED <<entry, git_server, pr_url, repo_owner, repo_name,
                   pr_numbers, idx, diff_text, analysis,
                   http_status>>
    /\ UNCHANGED <<rateVars, threadVars, poolVars, poolThreadVars, callVars>>

\* main.py:108, 167  the value post_review returns is not looked at: the
\* loop goes on to the next PR whether or not the comment was posted
StageAfterPostStopOnFailure(posted) == IF posted THEN "next" ELSE "crashed"
StageAfterPost(posted) == "next"

\* main.py:56-64, 108, 167  post_review
Post(posted) ==
    /\ stage = "post"
    /\ (IF posted THEN "ok" ELSE "failed") \in PostOutcomes(git_server)
    /\ trace' = Logged("post", posted)
    /\ IF StageAfterPost(posted) = "next"
       THEN Advance
       ELSE idx' = idx /\ stage' = "crashed"
    /\ diff_text' = None
    /\ analysis' = None
    /\ UNCHANGED <<args_pr_numbers, PR_NUMBER>>
    /\ UNCHANGED <<entry, git_server, pr_url, repo_owner, repo_name, pr_numbers,
                   results, http_status>>
    /\ UNCHANGED <<rateVars, threadVars, poolVars, poolThreadVars, callVars>>

Next ==
    \/ \E e \in Entries, server \in GitServers : RunStart(e, server)
    \/ \E is_json \in BOOLEAN : HttpValidate(is_json)
    \/ \E ok \in BOOLEAN : InitServices(ok)
    \/ \E o \in {"ok", "failed", "raises"}, d \in RunDiffs : Fetch(o, d)
    \/ SizeCheck
    \/ \E m \in RunCalls : Analyze(m[1], m[2])
    \/ \E o \in {"ok", "failed", "raises"} : Metadata(o)
    \/ Report
    \/ \E posted \in BOOLEAN : Post(posted)

Spec == Init /\ [][Next]_vars

\* ------------------------------------- the /analyze route, rate limited
\* app.py:102-104  analyze is registered wrapped in rate_limit, so a request
\* runs decorated_function (app.py:23-37) and, from line 37, the handler
\* (app.py:104-167).  One action is one request, start to end; stage is the
\* place the response was built: the decorator (line 34), the checks of the
\* body and the URL (lines 109-124, 164-167) or the rest of the handler.
\* rest_status is what the handler answers once the URL has passed.
AnalyzeRequest(remote_addr, is_json, url, rest_status) ==
    LET client_ip == ClientKey(remote_addr)
        window_start == now - window
        pruned == Prune(rate_limit_storage[client_ip], window_start)
        rejected == OverLimit(pruned, max_requests)
        invalid == ValidationStatus(is_json, url)
    IN  /\ rate_limit_storage' =
              [rate_limit_storage EXCEPT ![client_ip] = Record(pruned, now, rejected)]
        /\ last' = [client |-> remote_addr, time |-> now,
                    before |-> rate_limit_storage[client_ip],
                    prev |-> <<>>,
                    admitted |-> ~rejected, ran |-> ~rejected,
                    status |-> IF rejected THEN 429
                               ELSE IF invalid # 0 THEN invalid
                               ELSE rest_status]
        /\ pr_url' = url
        /\ http_status' = last'.status
        /\ stage' = IF rejected THEN "rate_limit"
                    ELSE IF invalid # 0 THEN "validate"
                    ELSE "handler"
        /\ UNCHANGED <<now, max_requests, window, reqlog>>
        /\ UNCHANGED <<args_pr_numbers, PR_NUMBER>>
        /\ UNCHANGED <<entry, git_server, repo_owner, repo_name, pr_numbers, idx,
                       diff_text, analysis, results, trace>>
        /\ UNCHANGED <<threadVars, poolVars, poolThreadVars, callVars>>

\* the request bodies: one that is no JSON, and a JSON body per URL value
HttpBodies ==
    {[is_json |-> FALSE, url |-> <<>>]}
      \cup {[is_json |-> TRUE, url |-> u] : u \in RunUrls}

NextHttp ==
    \/ Tick
    \/ \E c \in Clients, body \in HttpBodies, s \in HandlerStatuses :
          AnalyzeRequest(c, body.is_json, body.url, s)

SpecHttp == InitRate /\ [][NextHttp]_vars

\* ------------------------------------------- functions called on their own
\* Only the function under study runs: the rate limiter, the pool and the
\* review loops stay idle.
InitOthersIdle ==
    /\ InitRateIdle
    /\ InitPoolIdle
    /\ InitRunIdle

\* a unified diff: per file the 'diff --git', '---' and '+++' header lines, a
\* hunk header, a context line, then the added and the removed lines
HunkLine == <<"@", "@">>
Repeat(line, n) == [i \in 1..n |-> line]
FileSection(added, removed) ==
    <<GitLine, OldLine, NewLine, HunkLine, CtxLine>>
        \o Repeat(AddLine, added) \o Repeat(DelLine, removed)

RECURSIVE UnifiedDiff(_)
UnifiedDiff(secs) ==
    IF secs = <<>> THEN <<>>
    ELSE FileSection(Head(secs).added, Head(secs).removed) \o UnifiedDiff(Tail(secs))

Hunks == [added : 0..MaxHunk, removed : 0..MaxHunk]
SectionLists == UNION {[1..n -> Hunks] : n \in 1..MaxFiles}

\* analysis_engine.py:93  the except branch hands the diff to the fallback
InitFallback ==
    /\ arg \in {UnifiedDiff(secs) : secs \in SectionLists}
    /\ ret = None
    /\ InitOthersIdle

CallFallback ==
    /\ ~ret.some
    /\ ret' = Some(generate_fallback_analysis(arg))
    /\ UNCHANGED <<arg, rateVars, threadVars, poolVars, poolThreadVars, runVars>>

SpecFallback == InitFallback /\ [][CallFallback]_vars

\* the values handed to validate_github_url: the empty string, a value that
\* is no string, and the strings built from these pieces
UrlPieces ==
    [ form : {"url"},
      lead : {<<>>, <<" ">>},
      scheme : {"https://", "http://"},
      www : BOOLEAN,
      host : {"github.com", "gitlab.com"},
      owner : {<<"octocat">>, <<"o39">>, <<"o40">>, <<"octo$cat">>, <<>>},
      repo : {<<"hello-world">>, <<"r100">>, <<"r101">>},
      kind : {"pull", "issues"},
      number : {<<"42">>, <<"007">>, <<"0">>, <<"999999">>, <<"1000000">>, <<>>},
      slash : BOOLEAN,
      trail : {<<>>, <<"\n">>, <<"octocat">>} ]

NoUrl(form) ==
    [form |-> form, lead |-> <<>>, scheme |-> "https://", www |-> FALSE,
     host |-> "github.com", owner |-> <<>>, repo |-> <<>>, kind |-> "pull",
     number |-> <<>>, slash |-> FALSE, trail |-> <<>>]

UrlText(a) ==
    IF a.form = "empty" THEN <<>>
    ELSE IF a.form = "not_str" THEN NotAString
    ELSE a.lead \o <<a.scheme>> \o (IF a.www THEN <<"www.">> ELSE <<>>)
           \o <<a.host, "/">> \o a.owner \o <<"/">> \o a.repo
           \o <<"/", a.kind, "/">> \o a.number
           \o (IF a.slash THEN <<"/">> ELSE <<>>) \o a.trail

\* app.py:121  validate_github_url(pr_url), called on its own
InitUrl ==
    /\ arg \in UrlPieces \cup {NoUrl("empty"), NoUrl("not_str")}
    /\ ret = None
    /\ InitOthersIdle

CallValidate ==
    /\ ~ret.some
    /\ ret' = Some(validate_github_url(UrlText(arg)))
    /\ UNCHANGED <<arg, rateVars, threadVars, poolVars, poolThreadVars, runVars>>

SpecUrl == InitUrl /\ [][CallValidate]_vars

\* a provider method called on its own
InitProvider ==
    /\ arg \in [server : GitServers, op : ProviderOps, response : ProviderResponses]
    /\ ret = None
    /\ InitOthersIdle

CallProvider ==
    /\ ~ret.some
    /\ ret' = Some(provider_call(arg.server, arg.op, arg.response))
    /\ UNCHANGED <<arg, rateVars, threadVars, poolVars, poolThreadVars, runVars>>

SpecProvider == InitProvider /\ [][CallProvider]_vars

\* the diffs handed to preprocess_diff: every text of up to MaxLines lines of
\* these kinds
LineKinds ==
    { <<>>, <<"+">>, AddLine, <<"+", "+", "x">>, NewLine, <<"+", "+", "+", "+">>,
      <<"+", "-", "-", "-">>, DelLine, <<"-", "-", "x">>, OldLine,
      <<"-", "+", "+", "+">>, CtxLine, GitLine, HunkLine, <<"ADDED: ", "x">> }
SmallDiffs == UNION {[1..n -> LineKinds] : n \in 1..MaxLines}

\* analysis_engine.py:32  preprocess_diff(diff_text), then applied again to
\* its own output; arg keeps the first input and counts the applications
InitPreprocess ==
    /\ arg \in {[original |-> d, text |-> d, applied |-> 0] : d \in SmallDiffs}
    /\ ret = None
    /\ InitOthersIdle

CallPreprocess ==
    /\ arg.applied < MaxApply
    /\ IF ~ret.some
       THEN /\ ret' = Some(preprocess_diff(arg.text))
            /\ UNCHANGED arg
       ELSE /\ arg' = [arg EXCEPT !.text = ret.v, !.applied = @ + 1]
            /\ ret' = Some(preprocess_diff(ret.v))
    /\ UNCHANGED <<rateVars, threadVars, poolVars, poolThreadVars, runVars>>

SpecPreprocess == InitPreprocess /\ [][CallPreprocess]_vars

\* the texts of the model handed to format_analysis_output: up to MaxPhrases
\* phrases: prose, heading markers, a blank-line run, score lines
Phrases ==
    { "Summary", "## ", "### ", "\n \n",
      "Recommendation Score: 9", "Recommendation Score: 8",
      "Recommendation Score: 6", "Recommendation Score: 5",
      "Recommendation Score: 4", "Recommendation Score: 2" }
ModelTexts == UNION {[1..n -> Phrases] : n \in 0..MaxPhrases}

\* analysis_engine.py:78  format_analysis_output(response.text)
InitFormat ==
    /\ arg \in ModelTexts
    /\ ret = None
    /\ InitOthersIdle

CallFormat ==
    /\ ~ret.some
    /\ ret' = Some(format_analysis_output(arg))
    /\ UNCHANGED <<arg, rateVars, threadVars, poolVars, poolThreadVars, runVars>>

SpecFormat == InitFormat /\ [][CallFormat]_vars

\* ------------------------------------------------- review runs: claims
Stages(i) == [k \in DOMAIN trace[i] |-> trace[i][k].stage]
Ran(i, name) == \E k \in DOMAIN trace[i] : trace[i][k].stage = name
RanOk(i, name) ==
    \E k \in DOMAIN trace[i] : trace[i][k].stage = name /\ trace[i][k].ok
Failed(i, name) ==
    \E k \in DOMAIN trace[i] : trace[i][k].stage = name /\ ~trace[i][k].ok

\* C8: once a non-empty diff was fetched, the analysis step yields usable text
\* whatever the model call did and whatever text the engine returned: no
\* analysis step ends as a failed PR or a 500.
C8_AnalysisAlwaysUsable ==
    /\ \A i \in DOMAIN trace : ~Failed(i, "analyze")
    /\ \A i \in DOMAIN results : results[i].error # "Analysis failed"
    /\ (entry = "http" /\ Ran(1, "analyze")) => http_status # 500

\* C9: a finished batch run holds one result record per input PR, in input
\* order, each marked success or failed with a reason; a failed PR does not
\* keep the later PRs from being processed.
C9_OneRecordPerPR ==
    (entry \in {"batch", "main"} /\ stage \in {"done", "crashed"}) =>
        /\ stage = "done"
        /\ Len(results) = Len(pr_numbers)
        /\ \A i \in DOMAIN results :
              /\ results[i].pr_number = pr_numbers[i]
              /\ results[i].status \in {"success", "failed"}
              /\ results[i].status = "failed" <=>
                    (Failed(i, "fetch") \/ Failed(i, "analyze"))
              /\ results[i].status = "failed" => results[i].error # ""

\* C10: per PR the stages run in the order fetch, analyze, report, post; a
\* failed validation, fetch, size check or analysis is the PR's last stage and
\* ends it as failed; the engine is called only for PRs whose fetch succeeded
\* and a comment is posted only for PRs with an analysis text.
StageOrder == <<"fetch", "analyze", "report", "post">>
CoreStages(i) ==
    SelectSeq(Stages(i), LAMBDA n : n \in {"fetch", "analyze", "report", "post"})
IsPrefix(s, full) == Len(s) <= Len(full) /\ s = SubSeq(full, 1, Len(s))

C10_StagesInOrder ==
    /\ \A i \in DOMAIN trace :
          /\ IsPrefix(CoreStages(i), StageOrder)
          /\ \A k \in DOMAIN trace[i] :
                (trace[i][k].stage \in {"validate", "fetch", "size", "analyze"}
                    /\ ~trace[i][k].ok) => k = Len(trace[i])
          /\ Ran(i, "analyze") => RanOk(i, "fetch")
          /\ Ran(i, "post") => (RanOk(i, "analyze") /\ Ran(i, "report"))
          /\ (entry = "batch" /\ (Failed(i, "fetch") \/ Failed(i, "analyze"))
                /\ stage # "crashed") =>
                (Len(results) >= i /\ results[i].status = "failed")
    /\ Len(picked) = Cardinality({i \in DOMAIN trace : Ran(i, "analyze")})
    /\ lastCall.n > 0 => ~IsEmptyText(lastCall.diff)
    /\ (entry = "http" /\ stage = "done" /\ http_status = 200) =>
          (Stages(1) = <<"validate", "fetch", "size", "analyze">>
              /\ \A k \in 1..4 : trace[1][k].ok)

C10_Witness ==
    /\ entry = "batch"
    /\ stage = "done"
    /\ Len(pr_numbers) = 2
    /\ Stages(1) = <<"fetch">>
    /\ Failed(1, "fetch")
    /\ Stages(2) = StageOrder
    /\ Len(picked) = 1

\* ------------------------------------------------- engine pool: claims
\* C5: the k-th dispatch (k = 0, 1, ...) is handled by engine k mod pool_size,
\* the cursor advances by one on every dispatch whatever the analysis did
\* (formatted model text, fallback, rejected empty diff), and the cursor
\* always indexes a pool slot.
C5_RoundRobin ==
    /\ \A k \in DOMAIN picked : picked[k] = (k - 1) % pool_size
    /\ current_index = Len(picked) % pool_size
    /\ current_index >= 0 /\ current_index < pool_size
    /\ lastCall.n > 0 =>
          /\ lastCall.index = (lastCall.n - 1) % pool_size
          /\ lastCall.cursor = lastCall.n % pool_size

C5_Witness ==
    /\ pool_size = 3
    /\ picked = <<0, 1, 2, 0, 1>>
    /\ current_index = 2
    /\ lastCall.outcome = "network"
    /\ \E i \in 0..2 : analysis_history[i] = <<>>

\* C6: two dispatches that run concurrently on a pool of at least two engines
\* select consecutive distinct slots and leave the cursor advanced by two:
\* with no dispatch in flight the cursor is the number of dispatches mod
\* pool_size, and the k-th selection is slot k mod pool_size.
C6_CursorProtected ==
    pool_size >= 2 =>
        /\ \A k \in DOMAIN picked : picked[k] = (k - 1) % pool_size
        /\ (\A t \in Threads : ppc[t] = "idle") =>
              current_index = Len(picked) % pool_size

\* C7: for a non-empty diff a failed model call (network, quota, malformed or
\* unreadable response) never leaves analyze_code_changes as an exception: the
\* call returns the fallback summary carrying that diff's own counts.
CountLines(diff, tok) ==
    Cardinality({i \in DOMAIN diff : diff[i] # <<>> /\ diff[i][1] = tok})

C7_ModelFailureFallsBack ==
    (lastCall.n > 0 /\ ~IsEmptyText(lastCall.diff)
        /\ lastCall.outcome \in ModelFailures) =>
        /\ ~lastCall.raised
        /\ Len(lastCall.result) = 11
        /\ lastCall.result[1] = "**Automated Analysis Summary**"
        /\ lastCall.result[3] = ToString(CountLines(lastCall.diff, "diff --git"))
        /\ lastCall.result[5] = ToString(CountLines(lastCall.diff, "+"))
        /\ lastCall.result[7] = ToString(CountLines(lastCall.diff, "-"))
        /\ PhraseIn("Note: Detailed AI analysis temporarily unavailable. ",
                    lastCall.result)

C7_Witness ==
    /\ lastCall.n > 0
    /\ lastCall.diff = OneFileDiff
    /\ lastCall.outcome = "unreadable"
    /\ ~lastCall.raised
    /\ lastCall.result[5] = "2"

\* ------------------------------------------------ rate limiter: claims
AdmittedIn(c, lo, hi) ==
    {i \in DOMAIN reqlog[c] :
        /\ reqlog[c][i].admitted
        /\ reqlog[c][i].time > lo
        /\ reqlog[c][i].time <= hi}

WindowCap ==
    \A c \in Clients : \A T \in 0..now :
        Cardinality(AdmittedIn(c, T - window, T)) <= max_requests

\* the first max_requests+1 requests of c all lie inside one window
FirstBurst(c) ==
    /\ Len(reqlog[c]) > max_requests
    /\ reqlog[c][max_requests + 1].time - reqlog[c][1].time < window

\* C1: sequentially processed requests of one client: no trailing window
\* holds more than max_requests admitted requests; of a burst of
\* max_requests+1 requests inside the window the first max_requests are
\* admitted and run the handler, and the last is answered 429 without the
\* handler running.
C1_BurstCapped ==
    /\ WindowCap
    /\ \A c \in Clients : FirstBurst(c) =>
          /\ \A i \in 1..max_requests :
                reqlog[c][i].admitted /\ reqlog[c][i].ran
          /\ ~reqlog[c][max_requests + 1].admitted
          /\ ~reqlog[c][max_requests + 1].ran
    /\ (last.client # "none" /\ ~last.admitted) =>
          (last.status = 429 /\ ~last.ran)

C1_Witness ==
    /\ last.client # "none"
    /\ FirstBurst(last.client)
    /\ Len(reqlog[last.client]) = max_requests + 1
    /\ last.status = 429

Survivors(times, t) ==
    {i \in DOMAIN times : times[i] > t - window}

AdmittedTimes(c) ==
    LET log == SelectSeq(reqlog[c], LAMBDA e : e.admitted)
    IN [i \in DOMAIN log |-> log[i].time]

IsSuffix(s, full) ==
    /\ Len(s) <= Len(full)
    /\ s = SubSeq(full, Len(full) - Len(s) + 1, Len(full))

\* C3: a rejected request consumes no slot: after the call the client's list
\* holds exactly the entries that survived pruning, in order, and nothing for
\* the rejected request; every recorded timestamp is that of an admitted
\* request.
C3_RejectConsumesNothing ==
    /\ (last.client # "none" /\ ~last.admitted) =>
          LET after == rate_limit_storage[last.client]
              keep == Survivors(last.before, last.time)
          IN /\ Len(after) = Cardinality(keep)
             /\ IsSuffix(after, last.before)
             /\ \A i \in DOMAIN after : after[i] > last.time - window
    /\ \A c \in Clients : IsSuffix(rate_limit_storage[c], AdmittedTimes(c))

C3_Witness ==
    /\ last.client # "none"
    /\ ~last.admitted
    /\ Len(last.prev) > max_requests
    /\ ~last.prev[Len(last.prev)].admitted
    /\ last.time > last.prev[Len(last.prev)].time

\* C4: the window slides: a request is admitted exactly when fewer than
\* max_requests recorded timestamps are newer than now - window, also right
\* after rejections; once the whole window has passed since the client's last
\* admitted request, its next request is admitted.
LastAdmittedTime(log) ==
    LET adm == {i \in DOMAIN log : log[i].admitted}
    IN log[CHOOSE i \in adm : \A j \in adm : j <= i].time

C4_WindowRecovers ==
    last.client # "none" =>
        /\ last.admitted <=>
              Cardinality(Survivors(last.before, last.time)) < max_requests
        /\ \/ \A i \in DOMAIN last.prev : ~last.prev[i].admitted
           \/ last.time - LastAdmittedTime(last.prev) < window
           \/ last.admitted

C4_Witness ==
    /\ last.client # "none"
    /\ last.admitted
    /\ Len(last.prev) > 0
    /\ ~last.prev[Len(last.prev)].admitted
    /\ last.time - LastAdmittedTime(last.prev) >= window

\* C2: concurrent requests of one client behave as if prune, check and append
\* were one atomic step: no window holds more than max_requests admitted
\* requests, and when no request is in flight every admitted timestamp still
\* inside the window of the newest request is recorded exactly once.
NewestTime(c) ==
    LET log == reqlog[c]
    IN log[CHOOSE i \in DOMAIN log : \A j \in DOMAIN log : log[j].time <= log[i].time].time

C2_AtomicUnderInterleaving ==
    /\ WindowCap
    /\ (\A t \in Threads : pc[t] = "idle") =>
          \A c \in Clients : reqlog[c] # <<>> =>
              \A T \in (NewestTime(c) - window + 1)..NewestTime(c) :
                  Cardinality({i \in DOMAIN rate_limit_storage[c] :
                                  rate_limit_storage[c][i] = T})
                    = Cardinality(AdmittedIn(c, T - 1, T))

\* ------------------------------------------ review runs: claims, continued
\* C11: in every entry path (the /analyze handler, main, run_batch_analysis)
\* every diff handed to the analysis engine is non-empty and no longer than
\* the maximum diff size: an oversized diff is rejected before the engine runs.
C11_EngineDiffBounded ==
    lastCall.n > 0 =>
        /\ ~IsEmptyText(lastCall.diff)
        /\ TextLen(lastCall.diff) <= MaxDiffSize

\* C12: every (owner, repo, PR number) that reaches a provider call (the fetch
\* of the diff) or a model call (the analysis) has passed the URL validator's
\* checks: a name of the URL grammar for owner and repo, owner of at most 39
\* and repo of at most 100 characters, 0 < number <= 999999; a request whose
\* identifier fails validation makes no provider call and no model call.
PassesValidation(owner, repo, number) ==
    /\ IsNameGroup(owner) /\ GroupLen(owner) <= 39
    /\ IsNameGroup(repo) /\ GroupLen(repo) <= 100
    /\ number > 0 /\ number <= 999999

C12_ValidatedBeforeCalls ==
    \A i \in DOMAIN trace :
        /\ (Ran(i, "fetch") \/ Ran(i, "analyze")) =>
              PassesValidation(repo_owner, repo_name, pr_numbers[i])
        /\ Failed(i, "validate") => (~Ran(i, "fetch") /\ ~Ran(i, "analyze"))

\* C13: a failed post of the review comment does not invalidate the analysis:
\* the PR's report stays in the results with the analysis text, marked success
\* where records carry a status (run_batch_analysis) and never marked failed,
\* and the run goes on to the next PR (or ends normally after the last one).
C13_PostFailureKeepsReport ==
    \A i \in DOMAIN trace : Failed(i, "post") =>
        /\ \E k \in DOMAIN results :
              /\ results[k].pr_number = pr_numbers[i]
              /\ results[k].analysis # <<>>
              /\ results[k].status # "failed"
              /\ entry = "batch" => results[k].status = "success"
        /\ IF i < Len(pr_numbers) THEN idx > i ELSE stage = "done"

C13_Witness ==
    /\ entry = "batch"
    /\ stage = "done"
    /\ Len(pr_numbers) = 2
    /\ Failed(1, "post")
    /\ Stages(2) = StageOrder
    /\ Len(results) = 2
    /\ results[1].status = "success"

\* ------------------------------------------ engine pool: claims, continued
\* C14: an empty diff is a terminal failure: analyze_code_changes returns the
\* 'Unable to analyze' error without calling the model, whatever the model
\* would have answered, and without producing the fallback summary; the
\* orchestrator's analyze_changes turns that text into a failed analysis.
C14_EmptyDiffRejected ==
    (lastCall.n > 0 /\ lastCall.diff = EmptyText) =>
        /\ ~lastCall.raised
        /\ lastCall.model_calls = 0
        /\ lastCall.result = <<"Unable to analyze", ": diff text is empty.">>
        /\ ~PhraseIn("**Automated Analysis Summary**", lastCall.result)
        /\ FalsyText(analyze_changes(lastCall.result))

C14_Witness ==
    /\ lastCall.n > 1
    /\ lastCall.diff = EmptyText
    /\ lastCall.outcome = "network"
    /\ lastCall.model_calls = 0

\* C15: every analyze_code_changes call appends exactly one record to its
\* engine's history whatever the outcome (model success, model failure,
\* rejected input), flagged success exactly when the model's text was
\* returned, so each engine's total_analyses is the number of calls made on it.
CallsOn(e) == Cardinality({k \in DOMAIN picked : picked[k] = e})

C15_OneRecordPerCall ==
    /\ \A e \in 0..(pool_size - 1) :
          /\ Len(analysis_history[e]) = CallsOn(e)
          /\ CallsOn(e) > 0 =>
                get_analysis_statistics(analysis_history[e]).total_analyses = CallsOn(e)
    /\ lastCall.n > 0 =>
          /\ Len(lastCall.records) = 1
          /\ lastCall.records[1].success <=>
                (lastCall.diff # EmptyText /\ lastCall.outcome = "ok")

\* ------------------------------------------------ pure functions: claims
\* C16: for a unified diff of F file sections (each with its 'diff --git',
\* '---' and '+++' header lines) holding A added and R removed lines in all,
\* the fallback summary reports exactly F file(s), A additions and R deletions.
RECURSIVE SumOf(_, _)
SumOf(secs, field) ==
    IF secs = <<>> THEN 0 ELSE Head(secs)[field] + SumOf(Tail(secs), field)

C16_FallbackCounts ==
    ret.some =>
        \A secs \in SectionLists : arg = UnifiedDiff(secs) =>
            /\ ret.v[3] = ToString(Len(secs))
            /\ ret.v[5] = ToString(SumOf(secs, "added"))
            /\ ret.v[7] = ToString(SumOf(secs, "removed"))

\* C17: validate_github_url returns exactly the (owner, repo, number) parts of
\* every URL of the form https://(www.)?github.com/<owner>/<repo>/pull/<digits>[/]
\* with owner of at most 39 and repo of at most 100 characters and
\* 0 < number <= 999999, and fails for every other input: the empty string, a
\* value that is no string, any other string, a longer owner or repo, a number
\* <= 0 or > 999999.
InGrammar(a) ==
    /\ a.form = "url"
    /\ a.scheme = "https://"
    /\ a.host = "github.com"
    /\ a.owner # <<>> /\ a.owner # <<"octo$cat">>
    /\ a.repo # <<>>
    /\ a.kind = "pull"
    /\ a.number # <<>>

WithinBounds(a) ==
    /\ GroupLen(a.owner) <= 39
    /\ GroupLen(a.repo) <= 100
    /\ GroupInt(a.number) > 0
    /\ GroupInt(a.number) <= 999999

Returned(a) ==
    [ok |-> TRUE, error |-> "", owner |-> a.owner, repo |-> a.repo,
     pr_num |-> GroupInt(a.number)]

C18_ProviderNeverRaises ==
    ret.some =>
        /\ ret.v.requests <= 1
        /\ ~ret.v.raised
        /\ arg.response \in TransportFailures \cup ErrorStatuses => ~ret.v.ok
        /\ (ParsesBody(arg.server, arg.op)
              /\ arg.response \in {"body_not_json", "body_not_object"}) => ~ret.v.ok

\* C19: preprocess_diff never alters a metadata line: every line that starts
\* with '+++' or '---' is emitted unchanged, at its place, however often the
\* function is applied; and preprocess_diff is idempotent: applied to its own
\* output it returns that output.
C19_PreprocessIdempotent ==
    ret.some =>
        /\ Len(ret.v) = Len(arg.original)
        /\ \A i \in DOMAIN arg.original :
              (StartsWith(arg.original[i], <<"+", "+", "+">>)
                  \/ StartsWith(arg.original[i], <<"-", "-", "-">>)) =>
                  ret.v[i] = arg.original[i]
        /\ arg.applied >= 1 => ret.v = arg.text

C19_Witness ==
    /\ ret.some
    /\ arg.applied = 2
    /\ arg.original = <<NewLine, AddLine>>
    /\ ret.v = <<NewLine, <<"ADDED: ", "x">> >>
    /\ arg.text = ret.v

\* C20: format_analysis_output rewrites every 'Recommendation Score: N' to
\* 'Recommendation Score: N/10 <mark>' with the pass mark for N >= 8, the
\* warning mark for 5 <= N < 8 and the fail mark otherwise, each occurrence
\* keeping its own N; where no score occurs the rewriting changes nothing
\* (only heading markers and blank-line runs are normalised).
Rewritten(n) ==
    "**Recommendation Score: " \o ToString(n) \o "/10 "
        \o (IF n >= 8 THEN "pass" ELSE IF n >= 5 THEN "warn" ELSE "fail") \o "**"

C20_EachScoreRewritten ==
    ret.some =>
        /\ Len(ret.v) = Len(arg)
        /\ \A i \in DOMAIN arg :
              /\ ScoreValue(arg[i]) >= 0 => ret.v[i] = Rewritten(ScoreValue(arg[i]))
              /\ arg[i] = "Summary" => ret.v[i] = arg[i]
        /\ (\A i \in DOMAIN arg : arg[i] \notin {"## ", "### ", "\n \n"}
                                     /\ ScoreValue(arg[i]) < 0) => ret.v = arg

\* ---------------------------------------------------------------- C21
\* C21: in the single-PR HTTP flow the rate limiter admits after the URL was
\* validated and before the diff is fetched: a request that validation
\* rejects (no JSON body, missing or malformed URL) leaves no timestamp in
\* the client's rate window, which then holds only what survived pruning.
C21_ValidationBeforeAdmission ==
    (last.client # "none" /\ stage = "validate")
        => rate_limit_storage[last.client]
              = Prune(last.before, last.time - window)

\* ---------------------------------------------------------------- C22
\* the list the command line is meant to review: the --pr-numbers values
\* when the flag is given, else the configured PR_NUMBER, else nothing
IntendedPrNumbers ==
    IF args_pr_numbers.some THEN args_pr_numbers.v
    ELSE IF PR_NUMBER.some THEN <<DigitsValue(PR_NUMBER.v)>>
    ELSE <<>>

\* C22: main reviews the --pr-numbers values when the flag is given, else
\* the configured PR_NUMBER; it returns 1 without reviewing only when that
\* list is empty or the services fail to initialize, so a run given
\* --pr-numbers works through exactly those PRs whatever PR_NUMBER holds.
C22_CliReviewsGivenPRs ==
    (entry = "main") =>
        /\ pr_numbers = IntendedPrNumbers
        /\ (stage = "no_prs") = (IntendedPrNumbers = <<>>)
        /\ (stage = "done") =>
              /\ Len(trace) = Len(IntendedPrNumbers)
              /\ \A i \in 1..Len(trace) : Ran(i, "fetch")

\* ---------------------------------------------------------------- C23
\* C23: a call of analyze_code_changes on a non-empty diff appends exactly
\* one record, and the record's success flag agrees with the text the caller
\* got: a record flagged success means the model's text was returned (never
\* the fallback summary), a record flagged failure means the fallback
\* summary was returned; no call leaves both kinds of record.
C23_RecordAgreesWithResult ==
    (lastCall.n > 0 /\ ~IsEmptyText(lastCall.diff)) =>
        LET fallback == generate_fallback_analysis(lastCall.diff)
            records == lastCall.records
        IN  /\ Len(records) = 1
            /\ \A k \in DOMAIN records :
                  /\ records[k].success =>
                        lastCall.outcome = "ok" /\ lastCall.result # fallback
                  /\ ~records[k].success => lastCall.result = fallback
            /\ analysis_history[lastCall.index]
                  = SubSeq(analysis_history[lastCall.index], 1,
                           Len(analysis_history[lastCall.index]) - Len(records))
                      \o records

\* ---------------------------------------------------------------- C24
\* the client's own admitted requests still inside the window at time t
OwnRecent(log, t) ==
    Cardinality({i \in DOMAIN log : log[i].admitted /\ log[i].time > t - window})

\* C24: rate limiting is isolated per client: a step in which client b made
\* no request (whoever else was admitted or rejected) leaves b's timestamp
\* list as it was, and a request of b is admitted exactly when fewer than
\* max_requests of b's own earlier admitted requests lie within the window
\* ending now.
C24_ClientsIsolated ==
    [][\A b \in Clients :
          /\ reqlog'[b] = reqlog[b] =>
                rate_limit_storage'[b] = rate_limit_storage[b]
          /\ reqlog'[b] # reqlog[b] =>
                /\ last'.client = b
                /\ last'.admitted <=>
                      OwnRecent(reqlog[b], last'.time) < max_requests]_vars

\* client b is admitted, not for the first time, while another client's
\* window is full and that client has just been turned away
C24_Witness ==
    /\ last.client # "none"
    /\ last.admitted
    /\ \E i \in DOMAIN last.prev : last.prev[i].admitted
    /\ \E a \in Clients \ {last.client} :
          /\ Len(Prune(rate_limit_storage[a], last.time - window)) >= max_requests
          /\ reqlog[a] # <<>>
          /\ ~reqlog[a][Len(reqlog[a])].admitted
====
